---- MODULE Spec2Model ----
(***************************************************************************)
(* A model of httprunner's websocket support:                              *)
(*   - WebsocketClient (httprunner/websocket/websocket_client.py): the     *)
(*     primitives open_connection / ping / write / read / close_connection *)
(*     and the dispatcher send_request, on top of a websocket-client        *)
(*     WebSocket handle (connected flag, socket, socket timeout);           *)
(*   - run_step_websocket_request (httprunner/step_websocket_request.py);  *)
(*   - the builder RunWebsocketRequest and its views (same file).          *)
(*                                                                         *)
(* Time values (socket timeouts, the clock of the close handshake) are     *)
(* seconds, held in thousandths of a second: Seconds(3) is 3 s.            *)
(* Optional values are None (<<>>) or Some(x) (<<x>>).                     *)
(***************************************************************************)
EXTENDS Integers, Sequences, FiniteSets, TLC

VARIABLES ws, call, errLog, runner, step, builder

vars == <<ws, call, errLog, runner, step, builder>>

None == <<>>
Some(x) == <<x>>
Val(o) == o[1]

(***************************************************************************)
(* Constants of the websocket-client library used by the code.             *)
(***************************************************************************)
STATUS_NORMAL == 1000
STATUS_ABNORMAL_CLOSED == 1006
LENGTH_16 == 65536
OPCODE_TEXT == 1
OPCODE_BINARY == 2
OPCODE_CLOSE == 8
OPCODE_PING == 9
HANDSHAKE_STATUS == 101
DEFAULT_CLOSE_TIMEOUT == 3

Seconds(n) == n * 1000

(***************************************************************************)
(* Bounds of the model.                                                    *)
(***************************************************************************)
MaxFrames == 2        \* non-close frames a peer sends during one close handshake
MaxValidators == 2    \* assertions of one step

(***************************************************************************)
(* Input domains.                                                          *)
(***************************************************************************)
Methods == {"OPEN", "PING", "W", "R", "WR", "CLOSE"}
MethodInputs == Methods \cup {"BOGUS"}
StatusInputs == {-1, 0, STATUS_NORMAL, LENGTH_16 - 1, LENGTH_16}
PeerCodes == {STATUS_NORMAL, 1002, 3000, 4999}
TimeoutMsInputs == {2000}
RecvPayloads == {"[1]", "not-json"}
FrameDelays == {0, Seconds(1)}

\* struct.pack("!H", n): two bytes, big-endian
Pack(n) == <<n \div 256, n % 256>>
\* struct.unpack("!H", d)[0] of a two-byte string
Unpack(d) == d[1] * 256 + d[2]
\* payloads of the close frames a peer may send: a status code, or no payload
PeerCloseData == {Pack(c) : c \in PeerCodes} \cup {<<>>}

Ev(kind, opcode, data) == [ev |-> kind, opcode |-> opcode, data |-> data]
\* what a call has done when it returns (exc = "none") or raises; ret is a
\* status returned, body a message returned
Result(w, e, r, evs) ==
    [ws |-> w, exc |-> e, ret |-> r, body |-> None, io |-> evs, pc |-> "done",
     saved |-> None, prims |-> <<>>]
\* close_connection has sent its close frame and enters its receive loop
Pending(w, evs, saved) ==
    [ws |-> w, exc |-> "none", ret |-> None, body |-> None, io |-> evs,
     pc |-> "close_loop", saved |-> saved, prims |-> <<>>]
\* b done after a
Then(a, b) == [b EXCEPT !.io = a.io \o b.io, !.prims = a.prims \o b.prims]
\* r is what the primitive p did, called by send_request
Invoke(p, r) == [r EXCEPT !.prims = <<p>> \o @]

NoArgs == [method |-> "", header |-> None, timeout |-> None, text |-> None,
           binary |-> None, close_status |-> None]

\* WebsocketClient.__init__: a fresh WebSocket(), no body, no status
NewClient == [connected |-> FALSE, sock |-> FALSE, sockTimeout |-> None,
              text |-> None, status_code |-> None]

IdleCall == [pc |-> "idle", kind |-> "none", args |-> NoArgs, exc |-> "none",
             ret |-> None, body |-> None, io |-> <<>>, prims |-> <<>>,
             mark |-> 0,
             pre |-> NewClient,
             cpre |-> NewClient,
             resp_status |-> 0, sock_timeout |-> None,
             timeout |-> None, elapsed |-> 0, frames |-> 0, waited |-> "no",
             peer |-> None, prevClose |-> FALSE, lastRead |-> None]

(***************************************************************************)
(* The WebSocket handle of the websocket-client library, as the code uses  *)
(* it: self.client.send / settimeout / shutdown.                           *)
(***************************************************************************)

\* self.client.send(payload, opcode): without a socket the library raises
\* before anything is written; on a socket the frame goes out or the send fails
HandleSend(w, opcode, data, sendOk) ==
    IF ~w.sock
    THEN Result(w, "ConnectionClosed", None, <<>>)
    ELSE IF sendOk
         THEN Result(w, "none", None, <<Ev("send", opcode, data)>>)
         ELSE Result(w, "ConnectionError", None, <<Ev("send_fail", opcode, data)>>)

\* self.client.settimeout(t): put on the socket when there is one (the
\* handle also keeps it as the timeout of its next connect, which every
\* connect of this model overrides with its own timeout option)
set_timeout(w, t) ==
    Result([w EXCEPT !.sockTimeout = IF w.sock THEN t ELSE @],
           "none", None,
           IF w.sock THEN <<Ev("settimeout", 0, t)>> ELSE <<>>)

\* (faulty variant of HandleShutdown: the socket is kept)
HandleShutdownKeepsSocket(w) ==
    Result([w EXCEPT !.connected = FALSE], "none", None, <<>>)

\* self.client.shutdown(): close the socket if there is one, release it
HandleShutdown(w) ==
    Result([w EXCEPT !.sock = FALSE, !.connected = FALSE],
           "none", None,
           IF w.sock THEN <<Ev("release", 0, <<>>)>> ELSE <<>>)

(***************************************************************************)
(* The primitives of WebsocketClient.                                      *)
(***************************************************************************)

\* open_connection(url, **options): connect, then keep the handshake status.
\* The options go to connect() as they are, so the library takes
\* options["timeout"] (milliseconds in send_request's callers) as the socket
\* timeout in seconds.  conn: "ok", "refused" (no socket was made; the old
\* one stays) or "handshake_failed" (the library drops the socket).
open_connection(w, o, conn) ==
    LET t == IF o.timeout = None THEN None ELSE Some(Seconds(Val(o.timeout)))
        w1 == w
    IN  IF conn = "ok"
        THEN Result([w1 EXCEPT !.sock = TRUE, !.connected = TRUE,
                               !.sockTimeout = t,
                               !.status_code = Some(HANDSHAKE_STATUS)],
                    "none", None, <<Ev("connect", 0, <<>>)>>)
        ELSE IF conn = "refused"
        THEN Result(w1, "ConnectionError", None, <<Ev("connect_fail", 0, <<>>)>>)
        ELSE Result([w1 EXCEPT !.sock = FALSE],
                    "ConnectionError", None, <<Ev("handshake_fail", 0, <<>>)>>)

\* ping()
ping(w, sendOk) == HandleSend(w, OPCODE_PING, <<>>, sendOk)

\* (faulty variant of WriteOpcode: the opcode is not set for a binary payload)
WriteOpcodeAlwaysText(o) ==
    IF o.text # None \/ o.binary # None THEN OPCODE_TEXT ELSE 0

\* the opcode write() chooses: text wins over binary; 0 when neither is given
WriteOpcode(o) ==
    IF o.text # None THEN OPCODE_TEXT
    ELSE IF o.binary # None THEN OPCODE_BINARY
    ELSE 0

\* write(**options)
write(w, o, sendOk) ==
    IF WriteOpcode(o) = 0
    THEN Result(w, "ValueError", None, <<>>)
    ELSE HandleSend(w, WriteOpcode(o), <<>>, sendOk)

\* json.loads of a received payload, or the payload itself when it is no JSON
IsJson(p) == p \in {"[1]", "7", "null"}
JsonOrRaw(p) == [decoded |-> IsJson(p), raw |-> p]

\* read(): one blocking client.recv().  rcv: [kind |-> "data", payload |-> p],
\* [kind |-> "timeout"] (only a socket with a timeout times out) or
\* [kind |-> "lost"] (the library drops the socket of a lost connection)
read(w, rcv) ==
    IF ~w.sock
    THEN Result(w, "ConnectionClosed", None, <<>>)
    ELSE IF rcv.kind = "data"
    THEN [Result(w, "none", None, <<Ev("recv", 0, <<>>)>>)
            EXCEPT !.body = Some(JsonOrRaw(rcv.payload))]
    ELSE IF rcv.kind = "timeout" /\ w.sockTimeout # None
    THEN Result(w, "Timeout", None, <<Ev("recv", 0, <<>>)>>)
    ELSE Result([w EXCEPT !.sock = FALSE, !.connected = FALSE],
                "ConnectionClosed", None, <<Ev("recv", 0, <<>>)>>)

RecvOutcomes ==
    {[kind |-> "data", payload |-> p] : p \in RecvPayloads}
    \cup {[kind |-> "timeout", payload |-> ""], [kind |-> "lost", payload |-> ""]}

(***************************************************************************)
(* close_connection(close_status, timeout).                                *)
(***************************************************************************)

\* (faulty variant of InitialRespStatus: the status starts as the normal closure)
InitialRespStatusNormal == STATUS_NORMAL

\* resp_status = STATUS_ABNORMAL_CLOSED, the status before any answer
InitialRespStatus == STATUS_ABNORMAL_CLOSED

\* the range test of the close status
InRange(close_status) == ~(close_status < 0 \/ close_status >= LENGTH_16)

\* (faulty variant of CloseReleased: self.client.shutdown() is left out)
CloseReleasedNoShutdown(w, evs, resp_status) ==
    Result([w EXCEPT !.status_code = Some(resp_status)],
           "none", Some(resp_status), evs)

\* the outer "except: pass", then self.client.shutdown(), the status kept
\* and returned
CloseReleased(w, evs, resp_status) ==
    LET h == HandleShutdown(w)
    IN  Result([h.ws EXCEPT !.status_code = Some(resp_status)],
               "none", Some(resp_status), evs \o h.io)

\* (faulty variant of CloseBegin: the timeout is not put on the socket)
CloseBeginNoSocketTimeout(w, close_status, timeout, sendOk) ==
    IF ~w.connected
    THEN Result([w EXCEPT !.status_code = Some(InitialRespStatus)],
                "none", Some(InitialRespStatus), <<>>)
    ELSE IF ~InRange(close_status)
    THEN Result(w, "ValueError", None, <<>>)
    ELSE LET w1 == [w EXCEPT !.connected = FALSE]
             s == HandleSend(w1, OPCODE_CLOSE, Pack(close_status), sendOk)
         IN  IF s.exc # "none"
             THEN CloseReleased(w1, s.io, InitialRespStatus)
             ELSE IF timeout # None /\ Val(timeout) < 0
             THEN CloseReleased(w1, s.io, InitialRespStatus)
             ELSE Pending(w1, s.io, w1.sockTimeout)

\* from the entry of close_connection to the start of its receive loop
CloseBegin(w, close_status, timeout, sendOk) ==
    IF ~w.connected
    THEN Result([w EXCEPT !.status_code = Some(InitialRespStatus)],
                "none", Some(InitialRespStatus), <<>>)
    ELSE IF ~InRange(close_status)
    THEN Result(w, "ValueError", None, <<>>)
    ELSE LET w1 == [w EXCEPT !.connected = FALSE]
             s == HandleSend(w1, OPCODE_CLOSE, Pack(close_status), sendOk)
         IN  IF s.exc # "none"
             THEN CloseReleased(w1, s.io, InitialRespStatus)
             ELSE IF timeout # None /\ Val(timeout) < 0
             THEN \* sock.settimeout rejects a negative timeout: ValueError, swallowed
                  CloseReleased(w1, s.io, InitialRespStatus)
             ELSE Pending([w1 EXCEPT !.sockTimeout = timeout],
                          s.io \o <<Ev("settimeout", 0, timeout)>>,
                          w1.sockTimeout)

\* while timeout is None or time.time() - start_time < timeout
LoopCond(c) == IF c.timeout = None THEN TRUE ELSE c.elapsed < Val(c.timeout)

\* what one self.client.recv_frame() of the loop may bring on the socket w of
\* the call c: the peer's close frame, another frame after some delay within
\* the socket timeout, the socket timeout (after that time), an error, with
\* or without the library dropping the socket, or, on a socket without a
\* timeout, nothing at all.  Time advances: in no time the peer sends at most
\* MaxFrames frames; frames that take time come without a bound on their
\* number when the wait has a limit.  The delay of a close frame is left
\* out: the clock is read by the loop test only.
FrameOutcomes(w, c) ==
    LET delays == {d \in FrameDelays :
                      /\ IF w.sockTimeout = None THEN TRUE
                         ELSE d < Val(w.sockTimeout)
                      /\ IF c.frames < MaxFrames THEN TRUE
                         ELSE d > 0 /\ c.timeout # None}
    IN  {[kind |-> "close", opcode |-> OPCODE_CLOSE, data |-> p, delay |-> 0,
          drop |-> FALSE] : p \in PeerCloseData}
        \cup {[kind |-> "other", opcode |-> OPCODE_TEXT, data |-> Pack(3000),
               delay |-> d, drop |-> FALSE] : d \in delays}
        \cup {[kind |-> "timeout", opcode |-> 0, data |-> <<>>, delay |-> Val(t),
               drop |-> FALSE] : t \in {w.sockTimeout} \ {None}}
        \cup {[kind |-> "block", opcode |-> 0, data |-> <<>>, delay |-> 0,
               drop |-> FALSE] : t \in {w.sockTimeout} \cap {None}}
        \cup {[kind |-> "error", opcode |-> 0, data |-> <<>>, delay |-> 0,
               drop |-> b] : b \in BOOLEAN}

\* (faulty variant of IsCloseFrame: the opcode is not looked at)
IsAnyFrame(f) == f.kind \in {"close", "other"}

\* a frame came and frame.opcode == ABNF.OPCODE_CLOSE
IsCloseFrame(f) == f.kind \in {"close", "other"} /\ f.opcode = OPCODE_CLOSE

\* a frame came and the loop passes it over: "continue"
IsSkipped(f) == f.kind \in {"close", "other"} /\ ~IsCloseFrame(f)

\* the status decoded from a close frame: only when error logging is enabled,
\* and only from a payload of two bytes or more (struct.error is swallowed)
RecvStatus(resp_status, data, logEnabled) ==
    IF logEnabled /\ Len(data) >= 2
    THEN Unpack(SubSeq(data, 1, 2))
    ELSE resp_status

\* one pass of the receive loop.  peer keeps the payload of the close frame
\* the peer sent, waited how the pass ended.
CloseRecvFrame ==
    /\ call.pc = "close_loop"
    /\ LoopCond(call)
    /\ \E f \in FrameOutcomes(ws, call) :
        /\ ws' = IF f.drop THEN [ws EXCEPT !.sock = FALSE, !.connected = FALSE]
                 ELSE ws
        /\ call' = [call EXCEPT
              !.io = Append(@, Ev("recv", 0, <<>>)),
              !.elapsed = @ + f.delay,
              !.frames = IF IsSkipped(f) THEN @ + 1 ELSE @,
              !.pc = IF IsSkipped(f) THEN "close_loop"
                     ELSE IF f.kind = "block" THEN "blocked"
                     ELSE "close_tail",
              !.waited = IF IsCloseFrame(f) THEN "close"
                         ELSE IF IsSkipped(f) THEN "other"
                         ELSE f.kind,
              !.peer = IF f.kind = "close" THEN Some(f.data) ELSE @,
              !.resp_status = IF IsCloseFrame(f)
                              THEN RecvStatus(@, f.data, errLog) ELSE @]
    /\ UNCHANGED <<builder, errLog, runner, step>>

\* (faulty variant of CloseTailResult: the socket shutdown is outside the try)
CloseTailShutdownRaises(w, c, shutOk) ==
    IF w.sock /\ ~shutOk
    THEN Result([w EXCEPT !.sockTimeout = c.sock_timeout], "OSError", None,
                <<Ev("settimeout", 0, c.sock_timeout), Ev("shutdown_fail", 0, <<>>)>>)
    ELSE IF w.sock
    THEN CloseReleased([w EXCEPT !.sockTimeout = c.sock_timeout],
                       <<Ev("settimeout", 0, c.sock_timeout), Ev("shutdown", 0, <<>>)>>,
                       c.resp_status)
    ELSE CloseReleased(w, <<>>, c.resp_status)

\* (faulty variant of CloseTailResult: the socket timeout is not put back)
CloseTailNoRestore(w, c, shutOk) ==
    IF w.sock
    THEN CloseReleased(w, <<Ev(IF shutOk THEN "shutdown" ELSE "shutdown_fail", 0, <<>>)>>,
                       c.resp_status)
    ELSE CloseReleased(w, <<>>, c.resp_status)

\* after the loop: put the socket timeout back, shut the socket down (both
\* skipped by the outer except when the socket is gone or the shutdown
\* raises), then self.client.shutdown(), keep and return the status
CloseTailResult(w, c, shutOk) ==
    IF w.sock
    THEN CloseReleased([w EXCEPT !.sockTimeout = c.sock_timeout],
                       <<Ev("settimeout", 0, c.sock_timeout),
                         Ev(IF shutOk THEN "shutdown" ELSE "shutdown_fail", 0, <<>>)>>,
                       c.resp_status)
    ELSE CloseReleased(w, <<>>, c.resp_status)

CloseTail ==
    /\ \/ call.pc = "close_tail"
       \/ call.pc = "close_loop" /\ ~LoopCond(call)
    /\ \E shutOk \in BOOLEAN :
        \E r \in {CloseTailResult(ws, call, shutOk)} :
            /\ ws' = r.ws
            /\ call' = [call EXCEPT !.pc = "done", !.ret = r.ret,
                                    !.io = @ \o r.io,
                                    !.waited = IF call.pc = "close_loop"
                                               THEN "expired" ELSE @]
    /\ UNCHANGED <<builder, errLog, runner, step>>

(***************************************************************************)
(* send_request(request_method, url, **options).                           *)
(***************************************************************************)

\* (faulty variant of MsToSeconds: the milliseconds are taken as seconds)
MsAsSeconds(t) == Seconds(t)

\* options["timeout"] / 1000.0: milliseconds to seconds
MsToSeconds(t) == (t * Seconds(1)) \div 1000

\* the close status and the timeout (seconds) send_request hands to
\* close_connection
CloseStatusOf(o) ==
    IF o.close_status # None THEN Val(o.close_status) ELSE STATUS_NORMAL
CloseTimeoutOf(o) ==
    IF o.timeout # None THEN Some(MsToSeconds(Val(o.timeout)))
    ELSE Some(Seconds(DEFAULT_CLOSE_TIMEOUT))

\* (faulty variant of ReadIntoText: the body is assigned also when read raised)
ReadIntoTextAlways(r) == [r EXCEPT !.ws.text = r.body]

\* self.text = self.read()
ReadIntoText(r) ==
    IF r.exc = "none" THEN [r EXCEPT !.ws.text = r.body] ELSE r

\* the timeout set before the dispatch
SetRequestTimeout(w, o) ==
    IF o.timeout # None
    THEN set_timeout(w, Some(MsToSeconds(Val(o.timeout))))
    ELSE Result(w, "none", None, <<>>)

\* (faulty variant of Dispatch: WR reads also after a write that raised)
DispatchReadsAfterFailedWrite(w, o, e) ==
    IF o.method = "OPEN" THEN Invoke("open_connection", open_connection(w, o, e.conn))
    ELSE IF o.method = "PING" THEN Invoke("ping", ping(w, e.sendOk))
    ELSE IF o.method = "W" THEN Invoke("write", write(w, o, e.sendOk))
    ELSE IF o.method = "R" THEN Invoke("read", ReadIntoText(read(w, e.rcv)))
    ELSE IF o.method = "WR"
    THEN LET a == Invoke("write", write(w, o, e.sendOk))
             b == Invoke("read", ReadIntoText(read(a.ws, e.rcv)))
         IN  Then(a, IF a.exc # "none" THEN [b EXCEPT !.exc = a.exc] ELSE b)
    ELSE IF o.method = "CLOSE"
    THEN Invoke("close_connection",
                CloseBegin(w, CloseStatusOf(o), CloseTimeoutOf(o), e.sendOk))
    ELSE Result(w, "ValueError", None, <<>>)

\* the dispatch on the method; e holds what the transport and the peer do
Dispatch(w, o, e) ==
    IF o.method = "OPEN" THEN Invoke("open_connection", open_connection(w, o, e.conn))
    ELSE IF o.method = "PING" THEN Invoke("ping", ping(w, e.sendOk))
    ELSE IF o.method = "W" THEN Invoke("write", write(w, o, e.sendOk))
    ELSE IF o.method = "R" THEN Invoke("read", ReadIntoText(read(w, e.rcv)))
    ELSE IF o.method = "WR"
    THEN LET a == Invoke("write", write(w, o, e.sendOk))
         IN  IF a.exc # "none" THEN a
             ELSE Then(a, Invoke("read", ReadIntoText(read(a.ws, e.rcv))))
    ELSE IF o.method = "CLOSE"
    THEN Invoke("close_connection",
                CloseBegin(w, CloseStatusOf(o), CloseTimeoutOf(o), e.sendOk))
    ELSE Result(w, "ValueError", None, <<>>)

send_request(w, o, e) ==
    LET t == SetRequestTimeout(w, o)
    IN  Then(t, Dispatch(t.ws, o, e))

(***************************************************************************)
(* Inputs of the calls, and what the transport and the peer may do.        *)
(***************************************************************************)
TimeoutInputs == {None} \cup {Some(t) : t \in TimeoutMsInputs}
PayloadInputs(x) == {None, Some(x)}
CloseStatusInputs == {None} \cup {Some(c) : c \in StatusInputs}

\* the options that matter to a method are varied; the others are unset
RequestInputs ==
    {[NoArgs EXCEPT !.method = m, !.timeout = t] :
        m \in MethodInputs \ {"W", "WR", "CLOSE"}, t \in TimeoutInputs}
    \cup {[NoArgs EXCEPT !.method = m, !.timeout = t, !.text = x, !.binary = b] :
        m \in {"W", "WR"}, t \in TimeoutInputs,
        x \in PayloadInputs("ping"), b \in PayloadInputs("bytes")}
    \cup {[NoArgs EXCEPT !.method = "CLOSE", !.timeout = t, !.close_status = c] :
        t \in TimeoutInputs, c \in CloseStatusInputs}

ConnOutcomes == {"ok", "refused", "handshake_failed"}
NoRecv == [kind |-> "lost", payload |-> ""]

EnvFor(m) ==
    [sendOk : IF m \in {"PING", "W", "WR", "CLOSE"} THEN BOOLEAN ELSE {TRUE},
     conn : IF m = "OPEN" THEN ConnOutcomes ELSE {"ok"},
     rcv : IF m \in {"R", "WR"} THEN RecvOutcomes ELSE {NoRecv}]

\* c is a close_connection, direct or through send_request
IsClose(c) ==
    \/ c.kind = "close_connection"
    \/ c.kind = "send_request" /\ c.args.method = "CLOSE"
\* c is a close_connection that has returned
ClosedBy(c) == IsClose(c) /\ c.pc = "done" /\ c.exc = "none"

\* the value of the most recent read that a send_request of this client has
\* returned with, after a call of kind kind with arguments o that has done r
LastReadAfter(kind, o, r, prev) ==
    IF kind = "send_request" /\ o.method \in {"R", "WR"} /\ r.exc = "none"
    THEN r.body ELSE prev

\* a call of kind kind with arguments o starts on the client and has done r
Start(kind, o, r, mark, cpre, timeout) ==
    /\ ws' = r.ws
    /\ call' = [IdleCall EXCEPT !.pc = r.pc, !.kind = kind, !.args = o,
                                !.exc = r.exc, !.ret = r.ret, !.io = r.io,
                                !.body = r.body, !.prims = r.prims,
                                !.mark = mark, !.pre = ws, !.cpre = cpre,
                                !.sock_timeout = r.saved, !.timeout = timeout,
                                !.resp_status = InitialRespStatus,
                                !.prevClose = call.prevClose,
                                !.lastRead =
                                    LastReadAfter(kind, o, r, call.lastRead)]

\* send_request called with options o
StartSendRequest(o) ==
    \E e \in EnvFor(o.method), t \in {SetRequestTimeout(ws, o)} :
        \E r \in {send_request(ws, o, e)} :
            Start("send_request", o, r, Len(t.io), t.ws,
                  IF o.method = "CLOSE" THEN CloseTimeoutOf(o) ELSE None)

(***************************************************************************)
(* A client used directly: any of its public methods, one call at a time.  *)
(***************************************************************************)
CallSendRequest ==
    /\ call.pc = "idle"
    /\ \E o \in RequestInputs : StartSendRequest(o)
    /\ UNCHANGED <<builder, errLog, runner, step>>

CallOpenConnection ==
    /\ call.pc = "idle"
    /\ \E t \in TimeoutInputs, conn \in ConnOutcomes :
        \E r \in {open_connection(ws, [NoArgs EXCEPT !.timeout = t], conn)} :
            Start("open_connection", [NoArgs EXCEPT !.timeout = t], r, 0, ws, None)
    /\ UNCHANGED <<builder, errLog, runner, step>>

CallPing ==
    /\ call.pc = "idle"
    /\ \E sendOk \in BOOLEAN :
        \E r \in {ping(ws, sendOk)} : Start("ping", NoArgs, r, 0, ws, None)
    /\ UNCHANGED <<builder, errLog, runner, step>>

CallWrite ==
    /\ call.pc = "idle"
    /\ \E x \in PayloadInputs("ping"), b \in PayloadInputs("bytes"), sendOk \in BOOLEAN :
        \E r \in {write(ws, [NoArgs EXCEPT !.text = x, !.binary = b], sendOk)} :
            Start("write", [NoArgs EXCEPT !.text = x, !.binary = b], r, 0, ws, None)
    /\ UNCHANGED <<builder, errLog, runner, step>>

\* read() as such: its value is returned, self.text is left alone
CallRead ==
    /\ call.pc = "idle"
    /\ \E rcv \in RecvOutcomes :
        \E r \in {read(ws, rcv)} : Start("read", NoArgs, r, 0, ws, None)
    /\ UNCHANGED <<builder, errLog, runner, step>>

\* close_connection(close_status, timeout) with the timeout in seconds
DirectCloseTimeouts ==
    {None, Some(0 - Seconds(1)), Some(0), Some(Seconds(DEFAULT_CLOSE_TIMEOUT))}

CallCloseConnection ==
    /\ call.pc = "idle"
    /\ \E c \in StatusInputs, t \in DirectCloseTimeouts, sendOk \in BOOLEAN :
        \E r \in {CloseBegin(ws, c, t, sendOk)} :
            Start("close_connection",
                  [NoArgs EXCEPT !.close_status = Some(c), !.timeout = t],
                  r, 0, ws, t)
    /\ UNCHANGED <<builder, errLog, runner, step>>

\* the caller takes the result of the call (or its exception); the client is
\* ready for the next call
Returned(c) ==
    [IdleCall EXCEPT !.prevClose = ClosedBy(c), !.lastRead = c.lastRead]

Return ==
    /\ call.pc = "done"
    /\ call' = Returned(call)
    /\ UNCHANGED <<builder, ws, errLog, runner, step>>

(***************************************************************************)
(* run_step_websocket_request(runner, step).                               *)
(***************************************************************************)
NoRunner == [websocket_client |-> 0, created |-> 0]
NoStep == [phase |-> "none"]

\* StepResult(name, step_type, success=False, content_size=0)
InitialStepResult ==
    [success |-> FALSE, failure_info |-> None, export_vars |-> None,
     elapsed |-> FALSE, data |-> None]

\* the requests of the step descriptors: those of send_request, the payload
\* being text or nothing
StepDescriptors ==
    {[request |-> o, new_connection |-> n] :
        o \in {x \in RequestInputs : x.binary = None}, n \in BOOLEAN}

(***************************************************************************)
(* The headers of the request (lines 75-83).  A header name is the         *)
(* sequence of its characters, a header mapping a function from names to   *)
(* values, a formatted string the sequence of its pieces.                  *)
(***************************************************************************)
CorrelationHeader ==
    <<"H", "R", "U", "N", "-", "W", "e", "b", "s", "o", "c", "k", "e", "t", "-",
      "R", "e", "q", "u", "e", "s", "t", "-", "I", "D">>
SuffixLength == 6

HeaderNames == {<<":", "a">>, <<"x", ":">>, CorrelationHeader}
HeaderValues == {<<"x">>, <<"y">>}
\* the resolved header mappings of a step
HeaderInputs == UNION {[S -> HeaderValues] : S \in SUBSET HeaderNames}
NoHeaders == [key \in {} |-> <<>>]
\* runner.case_id
CaseIds == {"abc123", "r2"}
\* int(time.time() * 1000): the clock in milliseconds
ClockInputs == {5, 99999, 100000, 1000042, 2000123456}

\* key.startswith(":")
StartsWithColon(key) == Len(key) > 0 /\ key[1] = ":"

\* (faulty variant of OmitPseudoHeaders: every header is kept)
OmitNoHeaders(h) == h

\* {key: request_headers[key] for key in request_headers
\*  if not key.startswith(":")}
OmitPseudoHeaders(h) ==
    [key \in {k \in DOMAIN h : ~StartsWithColon(k)} |-> h[key]]

\* str(n) of a natural number: its decimal digits, no leading zero
DigitChars == <<"0", "1", "2", "3", "4", "5", "6", "7", "8", "9">>
RECURSIVE Str(_)
Str(n) ==
    IF n < 10 THEN <<DigitChars[n + 1]>>
    ELSE Append(Str(n \div 10), DigitChars[(n % 10) + 1])

\* s[-k:]: the last k characters of s, or all of s when it is shorter
LastChars(s, k) == SubSeq(s, IF Len(s) > k THEN Len(s) - k + 1 ELSE 1, Len(s))

\* f"HRUN-{runner.case_id}-{str(int(time.time() * 1000))[-6:]}"
RequestId(case_id, ms) ==
    <<"HRUN-", case_id, "-">> \o LastChars(Str(ms), SuffixLength)

\* request_headers[key] = v
SetHeader(h, key, v) ==
    [k \in DOMAIN h \cup {key} |-> IF k = key THEN v ELSE h[k]]

\* the headers put back into the parsed request
PreparedHeaders(h, case_id, ms) ==
    SetHeader(OmitPseudoHeaders(h), CorrelationHeader, RequestId(case_id, ms))

\* what a run of a step starts from: the descriptor, its resolved headers,
\* the run identifier and the clock.  The headers are varied on one
\* descriptor, and the identifier and the clock on it with no header or a
\* correlation header of the step's own: lines 75-83 read nothing else.
PlainStep == [request |-> [NoArgs EXCEPT !.method = "PING"], new_connection |-> FALSE]
OwnCorrelationHeader == [key \in {CorrelationHeader} |-> <<"x">>]
StepInputs ==
    {[d |-> d, headers |-> NoHeaders, case_id |-> "abc123", clock |-> 1000042] :
        d \in StepDescriptors}
    \cup {[d |-> PlainStep, headers |-> h, case_id |-> "abc123", clock |-> 1000042] :
        h \in HeaderInputs}
    \cup {[d |-> PlainStep, headers |-> h, case_id |-> c, clock |-> ms] :
        h \in {NoHeaders, OwnCorrelationHeader}, c \in CaseIds, ms \in ClockInputs}

\* "ensure websocket client exist": a client is made when the runner has none
EnsureClient(r, d) ==
    IF r.websocket_client = 0
    THEN [websocket_client |-> r.created + 1, created |-> r.created + 1]
    ELSE r

\* from the entry to the client being there: the StepResult, the parsing of
\* the request, its headers, the client
RunStepBegin ==
    /\ step.phase = "none"
    /\ call.pc = "idle"
    /\ \E i \in StepInputs :
        /\ runner' = EnsureClient(runner, i.d)
        /\ ws' = IF runner'.created # runner.created THEN NewClient ELSE ws
        /\ step' = [phase |-> "setup", d |-> i.d,
                    resolved |-> i.headers, case_id |-> i.case_id,
                    clock |-> i.clock,
                    headers |-> PreparedHeaders(i.headers, i.case_id, i.clock),
                    client |-> runner'.websocket_client,
                    fresh |-> runner'.created # runner.created,
                    first |-> runner.created = 0,
                    result |-> InitialStepResult, exc |-> "none",
                    validated |-> None,
                    trace |-> <<"prepare">>, variables |-> None,
                    seen |-> None]
    /\ UNCHANGED <<builder, call, errLog>>

\* an exception leaves run_step_websocket_request
Raised(s, e) == [s EXCEPT !.phase = "raised", !.exc = e]

\* what the hooks of a step do: there are none, they run, or one of them raises
HookOutcomes == {"none", "ok", "raise"}

\* the part p of the run starts
Started(s, p) == [s EXCEPT !.trace = Append(@, p)]

\* setup hooks, if any
RunStepSetupHooks ==
    /\ step.phase = "setup"
    /\ \E h \in HookOutcomes :
        step' = IF h = "none" THEN [step EXCEPT !.phase = "send"]
                ELSE IF h = "ok"
                THEN [Started(step, "setup_hooks") EXCEPT !.phase = "send"]
                ELSE Raised(Started(step, "setup_hooks"), "HookError")
    /\ UNCHANGED <<builder, ws, call, errLog, runner>>

\* runner.websocket_client.send_request(method_type, url, header=, timeout=,
\* text=, binary=, close_status=)
RunStepSendRequest ==
    /\ step.phase = "send"
    /\ call.pc = "idle"
    /\ StartSendRequest([step.d.request EXCEPT !.header = Some(step.headers)])
    /\ step' = [Started(step, "send_request") EXCEPT !.phase = "sending"]
    /\ UNCHANGED <<builder, errLog, runner>>

\* send_request raised: nothing catches it
RunStepSendRaised ==
    /\ step.phase = "sending"
    /\ call.pc = "done"
    /\ call.exc # "none"
    /\ step' = Raised(step, call.exc)
    /\ call' = Returned(call)
    /\ UNCHANGED <<builder, ws, errLog, runner>>

\* send_request returned: the response is wrapped, then the teardown hooks, if
\* any
RunStepTeardownHooks ==
    /\ step.phase = "sending"
    /\ call.pc = "done"
    /\ call.exc = "none"
    /\ \E h \in HookOutcomes, s \in {Started(step, "send_returned")} :
        step' = IF h = "none" THEN [s EXCEPT !.phase = "extract"]
                ELSE IF h = "ok"
                THEN [Started(s, "teardown_hooks") EXCEPT !.phase = "extract"]
                ELSE Raised(Started(s, "teardown_hooks"), "HookError")
    /\ call' = Returned(call)
    /\ UNCHANGED <<builder, ws, errLog, runner>>

\* resp_obj.extract(extractors, step_variables): the mapping, taken from the
\* response, is kept as export_vars and merged into the variables; or an
\* exception
RunStepExtract ==
    /\ step.phase = "extract"
    /\ \E ok \in BOOLEAN :
        step' = IF ok
                THEN [Started(step, "extract") EXCEPT
                         !.phase = "validate",
                         !.result.export_vars = Some(ws.text),
                         !.variables = Some(ws.text)]
                ELSE Raised(Started(step, "extract"), "ExtractError")
    /\ UNCHANGED <<builder, ws, call, errLog, runner>>

\* the results of the assertions of a step, in order: TRUE for a pass
AssertionResults ==
    UNION {[1..n -> BOOLEAN] : n \in 0..MaxValidators}

\* resp_obj.validate(validators, variables_mapping): ValidationFailure with
\* the report of the failing assertions when one fails; crash stands for any
\* other exception raised while validating
Validate(asserts, crash) ==
    LET failing == {i \in DOMAIN asserts : ~asserts[i]}
    IN  [exc |-> IF crash THEN "OtherError"
                 ELSE IF failing # {} THEN "ValidationFailure" ELSE "none",
         failures_string |-> IF ~crash /\ failing # {} THEN Some(failing) ELSE None,
         validation_results |-> asserts]

\* (faulty variant of ValidatedResult: the failure report is not stored)
ValidatedResultNoReport(res, v) ==
    [res EXCEPT !.success = (v.exc = "none"),
                !.data = Some([success |-> (v.exc = "none"),
                               validators |-> v.validation_results]),
                !.elapsed = TRUE]

\* (faulty variant of ValidatedResult: the session data keeps the success flag
\* it had when the step began)
ValidatedResultStaleSnapshot(res, v) ==
    [res EXCEPT !.success = (v.exc = "none"),
                !.failure_info = IF v.exc = "ValidationFailure"
                                 THEN v.failures_string ELSE @,
                !.data = Some([success |-> res.success,
                               validators |-> v.validation_results]),
                !.elapsed = TRUE]

\* try: validate, success = True / except ValidationFailure: success = False,
\* failure_info / finally: session data, elapsed, return step_result
ValidatedResult(res, v) ==
    LET success == (v.exc = "none")
    IN  [res EXCEPT
           !.success = success,
           !.failure_info = IF v.exc = "ValidationFailure"
                            THEN v.failures_string ELSE @,
           !.data = Some([success |-> success,
                          validators |-> v.validation_results]),
           !.elapsed = TRUE]

\* (faulty variant of ValidateArgs: the variables without the extracted values)
ValidateArgsBeforeExtract(s) == None

\* the variables_mapping handed to resp_obj.validate
ValidateArgs(s) == s.variables

\* (faulty variant of LeaveValidate: an exception that is no ValidationFailure
\* goes on to the caller)
LeaveValidateReraises(s, v) ==
    IF v.exc \in {"none", "ValidationFailure"}
    THEN [s EXCEPT !.phase = "returned"]
    ELSE Raised(s, v.exc)

\* finally: ... return step_result.  The return in the finally clause ends
\* the call with the StepResult, whatever validate raised
LeaveValidate(s, v) == [s EXCEPT !.phase = "returned"]

RunStepValidate ==
    /\ step.phase = "validate"
    /\ \E asserts \in AssertionResults, crash \in BOOLEAN :
        step' = LeaveValidate(
                    [Started(step, "validate") EXCEPT
                        !.result = ValidatedResult(@, Validate(asserts, crash)),
                        !.validated = Validate(asserts, crash),
                        !.seen = Some(ValidateArgs(step))],
                    Validate(asserts, crash))
    /\ UNCHANGED <<builder, ws, call, errLog, runner>>

\* the runner takes the StepResult (or the exception) and goes on
RunnerCollect ==
    /\ step.phase \in {"returned", "raised"}
    /\ step' = NoStep
    /\ UNCHANGED <<builder, ws, call, errLog, runner>>

(***************************************************************************)
(* RunWebsocketRequest, StepWebsocketRequestExtraction and                 *)
(* StepWebsocketRequestValidation.  The builder makes one TStep object;    *)
(* every view made from the builder is constructed on that same object     *)
(* (self.__step), so the builder and its views all hold tstep.             *)
(*   views   the views returned so far                                     *)
(*   frozen  the request of tstep when the first view was returned         *)
(*   ran     the request of the TStep a view handed to                     *)
(*           run_step_websocket_request                                    *)
(***************************************************************************)
BuilderTypes == {"WR", "CLOSE"}
BuilderUrls == {"/a", "/b"}
BuilderHeaders == {"A"}
BuilderVarNames == {"v"}

\* TStep(name=name) with websocket_request = TWebsocketRequest()
NewTStep ==
    [type |-> None, url |-> None, headers |-> {}, timeout |-> None,
     text |-> None, close_status |-> None, extract |-> {}]

\* RunWebsocketRequest.__init__
NewBuilder == [tstep |-> NewTStep, views |-> {}, frozen |-> None, ran |-> None]

\* operation, url, payload, headers, timeout and close_status of a TStep
RequestOf(t) ==
    [type |-> t.type, url |-> t.url, headers |-> t.headers,
     timeout |-> t.timeout, text |-> t.text, close_status |-> t.close_status]

\* a builder and its views are followed until one of the views is run
InUse == builder.ran = None

\* RunWebsocketRequest(name)
BuilderNew ==
    /\ builder' = NewBuilder
    /\ UNCHANGED <<ws, call, errLog, runner, step>>

\* open_connection / ping_pong / write_and_read / write / read /
\* close_connection (url): the type, then with_url
BuilderOperation ==
    /\ InUse
    /\ \E m \in BuilderTypes, u \in BuilderUrls :
        builder' = [builder EXCEPT !.tstep.type = Some(m), !.tstep.url = Some(u)]
    /\ UNCHANGED <<ws, call, errLog, runner, step>>

BuilderWithUrl ==
    /\ InUse
    /\ \E u \in BuilderUrls : builder' = [builder EXCEPT !.tstep.url = Some(u)]
    /\ UNCHANGED <<ws, call, errLog, runner, step>>

\* with_headers(**headers): headers.update(headers)
BuilderWithHeaders ==
    /\ InUse
    /\ \E h \in SUBSET BuilderHeaders :
        builder' = [builder EXCEPT !.tstep.headers = @ \cup h]
    /\ UNCHANGED <<ws, call, errLog, runner, step>>

BuilderWithTimeout ==
    /\ InUse
    /\ \E t \in TimeoutMsInputs : builder' = [builder EXCEPT !.tstep.timeout = Some(t)]
    /\ UNCHANGED <<ws, call, errLog, runner, step>>

BuilderWithText ==
    /\ InUse
    /\ builder' = [builder EXCEPT !.tstep.text = Some("ping")]
    /\ UNCHANGED <<ws, call, errLog, runner, step>>

BuilderWithCloseStatus ==
    /\ InUse
    /\ builder' = [builder EXCEPT !.tstep.close_status = Some(STATUS_NORMAL)]
    /\ UNCHANGED <<ws, call, errLog, runner, step>>

\* a view of kind k, constructed on the builder's own TStep t, is returned
ViewReturned(b, t, k) ==
    [b EXCEPT !.tstep = t,
              !.views = @ \cup {k},
              !.frozen = IF b.views = {} THEN Some(RequestOf(t)) ELSE @]

\* extract(): StepWebsocketRequestExtraction(self.__step)
BuilderExtract ==
    /\ InUse
    /\ builder' = ViewReturned(builder, builder.tstep, "extraction")
    /\ UNCHANGED <<ws, call, errLog, runner, step>>

\* validate(): StepWebsocketRequestValidation(self.__step)
BuilderValidate ==
    /\ InUse
    /\ builder' = ViewReturned(builder, builder.tstep, "validation")
    /\ UNCHANGED <<ws, call, errLog, runner, step>>

\* with_jmespath(jmes_path, var_name): the extractor is added, then
\* StepWebsocketRequestExtraction(self.__step)
BuilderWithJmespath ==
    /\ InUse
    /\ \E v \in BuilderVarNames :
        builder' = ViewReturned(builder,
                                [builder.tstep EXCEPT !.extract = @ \cup {v}],
                                "extraction")
    /\ UNCHANGED <<ws, call, errLog, runner, step>>

\* StepWebsocketRequestExtraction.validate():
\* StepWebsocketRequestValidation(self.__step)
ViewValidate ==
    /\ InUse
    /\ "extraction" \in builder.views
    /\ builder' = ViewReturned(builder, builder.tstep, "validation")
    /\ UNCHANGED <<ws, call, errLog, runner, step>>

\* run(runner) of a view: run_step_websocket_request(runner, self.__step)
ViewRun ==
    /\ InUse
    /\ builder.views # {}
    /\ builder' = [builder EXCEPT !.ran = Some(RequestOf(builder.tstep))]
    /\ UNCHANGED <<ws, call, errLog, runner, step>>

(***************************************************************************)
(* The specifications: a client driven directly, a runner running          *)
(* websocket steps, and a builder with its views.                          *)
(***************************************************************************)
Init ==
    /\ ws = NewClient
    /\ call = IdleCall
    /\ errLog \in BOOLEAN
    /\ runner = NoRunner
    /\ step = NoStep
    /\ builder = NewBuilder

Next ==
    \/ CallSendRequest
    \/ CallOpenConnection
    \/ CallPing
    \/ CallWrite
    \/ CallRead
    \/ CallCloseConnection
    \/ CloseRecvFrame
    \/ CloseTail
    \/ Return

Spec == Init /\ [][Next]_vars

NextStep ==
    \/ RunStepBegin
    \/ RunStepSetupHooks
    \/ RunStepSendRequest
    \/ CloseRecvFrame
    \/ CloseTail
    \/ RunStepSendRaised
    \/ RunStepTeardownHooks
    \/ RunStepExtract
    \/ RunStepValidate
    \/ RunnerCollect

\* a client driven directly, its receive loop going on: each recv_frame of
\* the loop ends (a frame, the socket timeout, an error, or the "block" step
\* on a socket without a timeout), and the code after the loop runs
SpecLive ==
    Init /\ [][Next]_vars /\ WF_vars(CloseRecvFrame) /\ WF_vars(CloseTail)

SpecStep == Init /\ [][NextStep]_vars

NextBuilder ==
    \/ BuilderNew
    \/ BuilderOperation
    \/ BuilderWithUrl
    \/ BuilderWithHeaders
    \/ BuilderWithTimeout
    \/ BuilderWithText
    \/ BuilderWithCloseStatus
    \/ BuilderExtract
    \/ BuilderValidate
    \/ BuilderWithJmespath
    \/ ViewValidate
    \/ ViewRun

SpecBuilder == Init /\ [][NextBuilder]_vars

(***************************************************************************)
(* Properties of WebsocketClient, checked under Spec.                      *)
(***************************************************************************)
Done(c) == c.pc = "done"
\* the transport events of close_connection itself (after send_request's
\* own timeout setting)
CloseIO(c) == SubSeq(c.io, c.mark + 1, Len(c.io))
\* the close status close_connection was called with
CloseStatusArg(c) ==
    IF c.args.close_status = None THEN 1000 ELSE Val(c.args.close_status)
OutOfRange16(n) == n < 0 \/ n > 65535
HasEvent(io, kinds) == \E i \in 1..Len(io) : io[i].ev \in kinds
IsSendEvent(e) == e.ev \in {"send", "send_fail"}
SendEvents(c) == SelectSeq(c.io, IsSendEvent)

\* C1: for every close status outside [0, 65536), close_connection raises
\* ValueError, sends no frame and does no other network I/O, in every
\* connection state of the handle (never connected, Connected, closed).
C1_OutOfRangeAlwaysRejected ==
    (Done(call) /\ IsClose(call) /\ OutOfRange16(CloseStatusArg(call)))
        => (call.exc = "ValueError" /\ CloseIO(call) = <<>>)

\* C2: for every close status in [0, 65536), close_connection returns a status
\* value and never raises, in every connection state and whatever the
\* transport and the peer do (send fails, peer answers or stays silent,
\* receive fails, socket shutdown fails).
C2_InRangeNeverRaises ==
    (Done(call) /\ IsClose(call) /\ ~OutOfRange16(CloseStatusArg(call)))
        => (/\ call.exc = "none"
            /\ call.ret # None
            /\ Val(call.ret) \in 0..65535
            /\ ws.status_code = call.ret)

\* a close on a Connected handle whose socket shutdown failed has returned
C2_Witness ==
    /\ Done(call) /\ IsClose(call) /\ call.cpre.connected
    /\ ~OutOfRange16(CloseStatusArg(call))
    /\ HasEvent(call.io, {"shutdown_fail"})
    /\ call.exc = "none"

\* C3: close_connection on a handle that is not Connected (never opened, or
\* closed by an earlier close_connection) sends nothing, receives nothing,
\* shuts nothing down and returns the abnormal-closure sentinel 1006; so a
\* close that follows a close that returned does no network I/O.
C3_CloseWhenNotConnected ==
    /\ (Done(call) /\ IsClose(call) /\ ~call.cpre.connected)
          => (/\ CloseIO(call) = <<>>
              /\ call.exc = "none"
              /\ call.ret = Some(1006)
              /\ ws.status_code = Some(1006))
    /\ (IsClose(call) /\ call.prevClose /\ call.pc # "idle")
          => (Done(call) /\ CloseIO(call) = <<>>)

\* a close right after a close that returned, on a handle that had been open
C3_Witness ==
    /\ Done(call) /\ IsClose(call) /\ call.prevClose
    /\ ~call.cpre.connected
    /\ call.cpre.status_code = Some(1006)
    /\ call.ret = Some(1006)

\* C4: on a Connected handle, when the peer answers with a close frame that
\* carries status c, close_connection returns c and keeps c as status_code,
\* for every setting of the library's error-logging switch.
C4_PeerStatusReturned ==
    (/\ Done(call) /\ IsClose(call) /\ call.cpre.connected
     /\ call.waited = "close" /\ call.peer # None /\ Len(Val(call.peer)) = 2)
        => (/\ call.ret = Some(Val(call.peer)[1] * 256 + Val(call.peer)[2])
            /\ ws.status_code = call.ret)

\* C5: on a Connected handle, when the peer never sends a close frame, the
\* call returns the sentinel 1006 once the timeout has elapsed, and the
\* socket timeout in force before the call is put back on the socket after
\* the wait, before the socket is shut down.
RestoredBeforeShutdown(c) ==
    LET io == CloseIO(c)
    IN  \E i \in 1..Len(io) :
            /\ io[i] = Ev("settimeout", 0, c.cpre.sockTimeout)
            /\ \A k \in 1..(i - 1) : io[k].ev \notin {"shutdown", "shutdown_fail", "release"}
            /\ \A k \in (i + 1)..Len(io) : io[k].ev # "settimeout"
            /\ \E k \in (i + 1)..Len(io) : io[k].ev \in {"shutdown", "shutdown_fail"}

C5_SilentPeerTimesOut ==
    (/\ Done(call) /\ IsClose(call) /\ call.cpre.connected
     /\ call.waited \in {"timeout", "expired"})
        => (/\ call.exc = "none"
            /\ call.ret = Some(1006)
            /\ call.elapsed >= Val(call.timeout)
            /\ RestoredBeforeShutdown(call)
            /\ ws.sockTimeout = call.cpre.sockTimeout)

\* the wait timed out on a socket whose timeout was another one before
C5_Witness ==
    /\ Done(call) /\ IsClose(call) /\ call.cpre.connected
    /\ call.waited = "timeout"
    /\ call.cpre.sockTimeout # None
    /\ call.cpre.sockTimeout # call.timeout
    /\ call.ret = Some(1006)

\* C6: write with neither text nor binary supplied raises ValueError and
\* sends no frame; with exactly one of them supplied it sends exactly one
\* frame on the handle's socket, text opcode for text and binary opcode for
\* binary.
IsWrite(c) ==
    \/ c.kind = "write"
    \/ c.kind = "send_request" /\ c.args.method = "W"
C6_WriteOneFrame ==
    (Done(call) /\ IsWrite(call)) =>
        LET x == call.args.text
            b == call.args.binary
            sent == SendEvents(call)
        IN  /\ (x = None /\ b = None)
                => (call.exc = "ValueError" /\ sent = <<>>)
            /\ ((x = None) # (b = None) /\ call.pre.sock)
                => (/\ Len(sent) = 1
                    /\ sent[1].opcode = IF x # None THEN 1 ELSE 2
                    /\ (call.exc = "none") = (sent[1].ev = "send"))

\* a binary payload alone went out as one binary frame
C6_Witness ==
    /\ Done(call) /\ IsWrite(call)
    /\ call.args.text = None /\ call.args.binary # None
    /\ call.exc = "none"
    /\ SendEvents(call) = <<Ev("send", 2, <<>>)>>

\* C7: a PING, WRITE, READ or WRITE_AND_READ issued while the handle is not
\* Connected fails with an error, puts no frame on the wire and leaves the
\* handle not Connected.
NeedsConnection(c) ==
    \/ c.kind \in {"ping", "write", "read"}
    \/ c.kind = "send_request" /\ c.args.method \in {"PING", "W", "R", "WR"}
WriteSent(c) ==
    \E i \in 1..Len(c.io) :
        c.io[i].ev = "send" /\ c.io[i].opcode \in {OPCODE_TEXT, OPCODE_BINARY}

\* C13: send_request invokes exactly the primitive(s) of the given operation:
\* OPEN one open, PING one ping, WRITE one write, READ one read,
\* WRITE_AND_READ one write followed by one read, the read only if the write
\* did not fail, CLOSE one close; for any other operation value it fails with
\* an argument error and invokes no primitive.
C13_ExactlyThePrimitives ==
    (call.kind = "send_request" /\ call.pc # "idle") =>
        LET m == call.args.method
        IN  /\ m = "OPEN" => call.prims = <<"open_connection">>
            /\ m = "PING" => call.prims = <<"ping">>
            /\ m = "W" => call.prims = <<"write">>
            /\ m = "R" => call.prims = <<"read">>
            /\ m = "WR" =>
                  IF WriteSent(call)
                  THEN call.prims = <<"write", "read">>
                  ELSE call.prims = <<"write">> /\ call.exc # "none"
            /\ m = "CLOSE" => call.prims = <<"close_connection">>
            /\ m \notin {"OPEN", "PING", "W", "R", "WR", "CLOSE"} =>
                  (/\ call.prims = <<>>
                   /\ call.pc = "done"
                   /\ call.exc = "ValueError")

\* a write-and-read whose write failed on the wire: no read was issued
C13_Witness ==
    /\ call.kind = "send_request" /\ call.pc = "done"
    /\ call.args.method = "WR"
    /\ HasEvent(call.io, {"send_fail"})
    /\ call.prims = <<"write">>
    /\ call.exc = "ConnectionError"

\* the close frames of a call, sent or failed in the sending, and the place
\* of the first in the events of the call
IsCloseSend(e) == IsSendEvent(e) /\ e.opcode = OPCODE_CLOSE
CloseSends(c) == SelectSeq(c.io, IsCloseSend)
FirstCloseSend(c) == CHOOSE i \in 1..Len(c.io) : IsCloseSend(c.io[i])

\* C15: a CLOSE through send_request with no close_status and no timeout
\* sends a close frame whose payload is the two bytes of 1000, big-endian,
\* and waits for the peer's close frame with a bound of 3000 ms; with
\* close_status s and timeout t ms supplied, the payload is
\* (s div 256, s mod 256) and the bound t ms.  The bound is the timeout put
\* on the socket for the wait and the limit of the receive loop, read in
\* thousandths of a second.
C15_ClosePayloadAndBound ==
    (call.kind = "send_request" /\ call.args.method = "CLOSE" /\ call.pc # "idle") =>
        LET s == IF call.args.close_status = None THEN 1000
                 ELSE Val(call.args.close_status)
            t == IF call.args.timeout = None THEN 3000
                 ELSE Val(call.args.timeout)
            sent == CloseSends(call)
        IN  /\ Len(sent) <= 1
            /\ (call.cpre.connected /\ call.cpre.sock /\ s \in 0..65535)
                  => Len(sent) = 1
            /\ \A i \in 1..Len(sent) :
                  /\ sent[i].data = <<s \div 256, s % 256>>
                  /\ call.args.close_status = None => sent[i].data = <<3, 232>>
            /\ (sent # <<>> /\ sent[1].ev = "send") =>
                  /\ call.io[FirstCloseSend(call) + 1] = Ev("settimeout", 0, Some(t))
                  /\ call.timeout = Some(t)
                  /\ call.pc = "close_loop" => ws.sockTimeout = Some(t)
                  /\ call.waited \in {"timeout", "expired"} => call.elapsed >= t

\* a CLOSE with status 65535 and timeout 2000 ms waits for the peer
C15_Witness ==
    /\ call.kind = "send_request" /\ call.args.method = "CLOSE"
    /\ call.args.close_status = Some(65535)
    /\ call.args.timeout = Some(2000)
    /\ call.pc = "close_loop"
    /\ CloseSends(call) = <<Ev("send", 8, <<255, 255>>)>>
    /\ ws.sockTimeout = Some(2000)

\* what the call c would have done had the peer's close frame been the first
\* frame to come
OnlyCloseFrame(c) ==
    LET b == CloseBegin(c.cpre, CloseStatusArg(c), c.timeout, TRUE)
        r == [resp_status |-> RecvStatus(InitialRespStatus, Val(c.peer), errLog),
              sock_timeout |-> b.saved]
    IN  CloseTailResult(b.ws, r, TRUE)

\* C18: during the close handshake, any number of non-close frames received
\* before the peer's close frame are discarded and do not change the
\* outcome: the result equals the result obtained when only the close frame
\* is received, provided the close frame arrives before the timeout elapses.
C18_OtherFramesDiscarded ==
    (Done(call) /\ IsClose(call) /\ call.waited = "close") =>
        /\ call.peer # None
        /\ call.exc = OnlyCloseFrame(call).exc
        /\ call.ret = OnlyCloseFrame(call).ret
        /\ ws = OnlyCloseFrame(call).ws

\* the peer's close frame with status 4999 came after MaxFrames other frames
C18_Witness ==
    /\ Done(call) /\ IsClose(call) /\ call.waited = "close"
    /\ call.frames = MaxFrames
    /\ call.elapsed > 0
    /\ call.peer = Some(Pack(4999))
    /\ errLog
    /\ call.ret = Some(4999)

\* C19: after close_connection on a Connected handle with an in-range status
\* returns, the handle is not Connected and the transport has been released,
\* whether the close frame was sent or the send failed, the peer answered or
\* timed out, the socket shutdown succeeded or raised; a shutdown error is
\* never propagated to the caller.
C19_ClosedAndReleased ==
    /\ (Done(call) /\ IsClose(call) /\ call.cpre.connected
        /\ ~OutOfRange16(CloseStatusArg(call)))
          => (/\ call.exc = "none"
              /\ ~ws.connected
              /\ ~ws.sock)
    /\ (IsClose(call) /\ HasEvent(call.io, {"shutdown_fail"}))
          => (Done(call) /\ call.exc = "none")

\* the close frame could not be sent, and the socket was released
C19_Witness ==
    /\ Done(call) /\ IsClose(call) /\ call.cpre.connected /\ call.cpre.sock
    /\ HasEvent(call.io, {"send_fail"})
    /\ HasEvent(call.io, {"release"})
    /\ ~ws.connected /\ ~ws.sock

\* C20: close_connection invoked with a finite timeout eventually returns
\* for every peer behaviour, a peer that keeps sending non-close frames and
\* a peer that sends nothing included: as time advances, the receive loop
\* ends.  (Under SpecLive.)
C20_CloseReturns ==
    (call.pc = "close_loop" /\ call.timeout # None) ~> (call.pc = "done")

\* the peer sent non-close frames until the time was up
C20_Witness ==
    /\ Done(call) /\ IsClose(call) /\ call.timeout # None
    /\ call.waited = "expired"
    /\ call.frames > 0
    /\ call.elapsed >= Val(call.timeout)
    /\ call.ret = Some(1006)

IsOpen(c) ==
    \/ c.kind = "open_connection"
    \/ c.kind = "send_request" /\ c.args.method = "OPEN"

\* C14: the handle becomes Connected only as the result of a successful
\* OPEN; an OPEN whose handshake fails raises a connection error and leaves
\* the handle not Connected and the stored status_code unchanged.
C14_ConnectedOnlyByOpen ==
    /\ (call.pc # "idle" /\ ws.connected /\ ~call.pre.connected)
          => (IsOpen(call) /\ call.exc = "none")
    /\ (Done(call) /\ IsOpen(call) /\ HasEvent(call.io, {"handshake_fail"}))
          => (/\ call.exc = "ConnectionError"
              /\ ~ws.connected
              /\ ws.status_code = call.pre.status_code)

\* send_request was rejected for its arguments: an unrecognized operation,
\* or a W / WR with neither text nor binary
RejectedForArguments(c) ==
    /\ Done(c) /\ c.kind = "send_request" /\ c.exc = "ValueError"
    /\ \/ c.args.method \notin Methods
       \/ c.args.method \in {"W", "WR"}
            /\ c.args.text = None /\ c.args.binary = None

\* C23: a send_request call that is rejected with an argument error
\* (unrecognized operation, or a WRITE / WRITE_AND_READ with neither text nor
\* binary) leaves the client unchanged: connection state, stored response
\* body, stored status_code and the transport's timeout setting are all the
\* same as before the call.
C23_RejectedCallLeavesClientUnchanged ==
    RejectedForArguments(call) =>
        /\ ws.connected = call.pre.connected
        /\ ws.sock = call.pre.sock
        /\ ws.text = call.pre.text
        /\ ws.status_code = call.pre.status_code
        /\ ws.sockTimeout = call.pre.sockTimeout

(***************************************************************************)
(* Properties of run_step_websocket_request, checked under SpecStep.       *)
(***************************************************************************)
TransportErrors == {"ConnectionError", "ConnectionClosed", "Timeout"}

\* C8: when the network operation of a step fails with a connection or
\* transport error (during open, ping, write or read),
\* run_step_websocket_request does not raise: it returns a StepResult whose
\* success is false.
C8_TransportErrorGivesFailedResult ==
    step.phase = "raised" => step.exc \notin TransportErrors

\* C9: for a step whose network operation completed and whose assertions were
\* evaluated: if at least one assertion fails the step returns, without
\* raising, a StepResult with success = false and failure_info equal to the
\* validator's failure report; if every assertion passes it returns a
\* StepResult with success = true and no failure_info.
C9_ValidationOutcome ==
    /\ step.phase = "raised" => step.exc # "ValidationFailure"
    /\ (step.phase = "returned" /\ step.validated.exc # "OtherError") =>
          LET asserts == step.validated.validation_results
              failing == {i \in DOMAIN asserts : ~asserts[i]}
          IN  IF failing # {}
              THEN /\ step.result.success = FALSE
                   /\ step.result.failure_info = Some(failing)
                   /\ step.result.failure_info = step.validated.failures_string
              ELSE /\ step.result.success = TRUE
                   /\ step.result.failure_info = None

\* a step with one passing and one failing assertion has returned
C9_Witness ==
    /\ step.phase = "returned"
    /\ step.validated.validation_results = <<TRUE, FALSE>>
    /\ step.result.success = FALSE
    /\ step.result.failure_info = Some({2})

\* C10: a client is created when the first websocket step runs; a later step
\* whose new_connection flag is unset runs on that same client; every step
\* whose new_connection flag is set runs on a freshly created client.
C10_NewConnectionGetsFreshClient ==
    step.phase # "none" =>
        /\ step.first => step.fresh
        /\ (~step.first /\ ~step.d.new_connection) => ~step.fresh
        /\ step.d.new_connection => step.fresh

\* send_request has been called by the running step
SendRequestCalled == step.phase = "sending" /\ call.kind = "send_request"
\* the headers it was handed
HandedHeaders == Val(call.args.header)

\* C11, as stated: for every resolved header mapping of a step, the headers
\* handed to send_request contain no name that starts with ':' and contain
\* every other resolved header with its value unchanged.
C11_OthersUnchanged ==
    SendRequestCalled =>
        /\ \A k \in DOMAIN HandedHeaders : ~StartsWithColon(k)
        /\ \A k \in DOMAIN step.resolved :
              ~StartsWithColon(k) =>
                  (k \in DOMAIN HandedHeaders
                   /\ HandedHeaders[k] = step.resolved[k])

\* C11, amended: the headers handed to send_request contain no name that
\* starts with ':' and contain every other resolved header, except the one
\* named HRUN-Websocket-Request-ID, with its value unchanged.
C11_OthersButCorrelationUnchanged ==
    SendRequestCalled =>
        /\ \A k \in DOMAIN HandedHeaders : ~StartsWithColon(k)
        /\ \A k \in DOMAIN step.resolved :
              (~StartsWithColon(k) /\ k # CorrelationHeader) =>
                  (k \in DOMAIN HandedHeaders
                   /\ HandedHeaders[k] = step.resolved[k])

\* a step with a pseudo-header and a header with a colon inside was sent
C11_Witness ==
    /\ SendRequestCalled
    /\ DOMAIN step.resolved = {<<":", "a">>, <<"x", ":">>}
    /\ step.resolved[<<"x", ":">>] = <<"y">>
    /\ DOMAIN HandedHeaders = {<<"x", ":">>, CorrelationHeader}
    /\ HandedHeaders[<<"x", ":">>] = <<"y">>

\* the six low-order decimal digits of n, leading zeros kept
SixLowDigits(n) ==
    LET tens == <<100000, 10000, 1000, 100, 10, 1>>
    IN  [i \in 1..6 |-> DigitChars[((n \div tens[i]) % 10) + 1]]

\* C12: for every run identifier and every clock value, the headers handed to
\* send_request contain HRUN-Websocket-Request-ID with the value
\* "HRUN-<run id>-<d>", d being exactly the six low-order decimal digits of
\* the millisecond timestamp (leading zeros kept), also when the step
\* supplied a header of that name.
C12_CorrelationHeaderSixDigits ==
    SendRequestCalled =>
        /\ CorrelationHeader \in DOMAIN HandedHeaders
        /\ HandedHeaders[CorrelationHeader]
              = <<"HRUN-", step.case_id, "-">> \o SixLowDigits(step.clock)

\* the parts of one run of a step, in the order of the source
PhaseOrder ==
    <<"prepare", "setup_hooks", "send_request", "send_returned",
      "teardown_hooks", "extract", "validate">>
PhaseIndex(p) == CHOOSE i \in 1..Len(PhaseOrder) : PhaseOrder[i] = p
AfterSend == {"teardown_hooks", "extract", "validate"}

\* C16: within one run of a step the phases happen at most once each and in
\* the order: resolution and header preparation, setup hooks, send_request,
\* teardown hooks, extraction, validation; teardown hooks, extraction and
\* validation never start before send_request has returned, and validation
\* sees the values produced by extraction.
C16_PhasesInOrder ==
    step.phase # "none" =>
        LET tr == step.trace
        IN  /\ tr[1] = "prepare"
            /\ \A i, j \in 1..Len(tr) :
                  i < j => PhaseIndex(tr[i]) < PhaseIndex(tr[j])
            /\ \A i \in 1..Len(tr) :
                  tr[i] \in AfterSend =>
                      /\ \E k \in 1..(i - 1) : tr[k] = "send_request"
                      /\ \E k \in 1..(i - 1) : tr[k] = "send_returned"
                      /\ call.pc = "idle"
            /\ (call.pc \notin {"idle", "done"}) => tr[Len(tr)] = "send_request"
            /\ (\E i \in 1..Len(tr) : tr[i] = "validate") =>
                  /\ \E i \in 1..Len(tr) : tr[i] = "extract"
                  /\ step.result.export_vars # None
                  /\ step.seen = Some(step.result.export_vars)

\* a step with setup and teardown hooks went through every phase, and its
\* validation saw the body that the extraction took from the response
C16_Witness ==
    /\ step.phase = "returned"
    /\ step.trace = PhaseOrder
    /\ step.result.export_vars # None
    /\ Val(step.result.export_vars) # None
    /\ step.seen = Some(step.result.export_vars)

\* C21: every StepResult returned by run_step_websocket_request has its
\* elapsed time and its session snapshot populated, the snapshot's success
\* flag equal to the StepResult's success flag, and failure_info populated
\* only if success is false.
C21_ReturnedResultPopulated ==
    step.phase = "returned" =>
        /\ step.result.elapsed
        /\ step.result.data # None
        /\ Val(step.result.data).success = step.result.success
        /\ step.result.failure_info # None => ~step.result.success

\* a step whose assertions all passed has returned with its snapshot
C21_Witness ==
    /\ step.phase = "returned"
    /\ step.result.success
    /\ step.result.data # None
    /\ Val(step.result.data).success
    /\ step.result.failure_info = None

\* C22: after any sequence of send_request calls on one client, the client's
\* stored response body equals the value returned by the most recent
\* successful READ or WRITE_AND_READ, or is empty if there was none: OPEN,
\* PING, WRITE, CLOSE and a WRITE_AND_READ whose write fails leave it
\* unchanged.  So what a step extracts from, and validates, is the body of
\* the most recent read, be it that of an earlier step.
C22_BodyIsLastRead ==
    /\ ws.text = call.lastRead
    /\ (Done(call) /\ call.kind = "send_request"
          /\ ~(call.args.method \in {"R", "WR"} /\ call.exc = "none")) =>
            ws.text = call.pre.text
    /\ (step.phase \in {"validate", "returned"}) =>
            /\ step.result.export_vars = Some(call.lastRead)
            /\ step.seen # None => step.seen = Some(Some(call.lastRead))

\* a step that only pings has been validated on the body read by an earlier
\* step
C22_Witness ==
    /\ step.phase = "returned"
    /\ step.d.request.method = "PING"
    /\ call.lastRead # None
    /\ step.result.export_vars = Some(call.lastRead)
    /\ step.seen = Some(Some(ws.text))

\* validation has been started in the run of step s
ValidationStarted(s) == \E i \in DOMAIN s.trace : s.trace[i] = "validate"

\* C24: once the network operation, the teardown hooks and the extraction of
\* a step have completed, run_step_websocket_request returns a StepResult for
\* every outcome of the validation call: any exception raised during
\* validation, not only a ValidationFailure, is absorbed and yields
\* success = false, and only a ValidationFailure populates failure_info.
C24_ValidationNeverRaises ==
    /\ step.phase = "raised" => ~ValidationStarted(step)
    /\ step.phase = "returned" =>
          /\ ValidationStarted(step)
          /\ step.validated.exc # "none" => ~step.result.success
          /\ step.result.failure_info # None
                <=> step.validated.exc = "ValidationFailure"

\* validation raised an exception that is no ValidationFailure, and the step
\* returned a failed StepResult without failure_info
C24_Witness ==
    /\ step.phase = "returned"
    /\ step.validated.exc = "OtherError"
    /\ ~step.result.success
    /\ step.result.failure_info = None
    /\ step.result.data # None

(***************************************************************************)
(* Properties of the builder, checked under SpecBuilder.                   *)
(***************************************************************************)

\* C17: once extract(), validate() or with_jmespath() has been requested on
\* a RunWebsocketRequest builder, no later sequence of builder calls can
\* change the operation, url, payload, headers, timeout or close_status of
\* the descriptor that the returned restricted view runs.
C17_ViewDescriptorFixed ==
    /\ builder.frozen # None => RequestOf(builder.tstep) = Val(builder.frozen)
    /\ builder.ran # None => builder.ran = builder.frozen

====
